---- MODULE Spec2Model ----
(***************************************************************************)
(* Knowledge-graph synthesis and reasoning pipeline.                       *)
(*                                                                         *)
(* Part I  : GraphSynthesisAgent._optimize_graph and its helpers           *)
(*           (src/agents/graph_synthesis_agent.py).                        *)
(* Part II : the reasoning tools find_interesting_patterns,                *)
(*           verify_hypothesis_from_text, create_inferred_relationship and *)
(*           execute_reasoning_pipeline (src/tools/reasoning_tools.py)     *)
(*           over GraphDB.execute_query (src/tools/graph_db.py).           *)
(***************************************************************************)
EXTENDS Integers, Sequences, FiniteSets, TLC

VARIABLES
    \* ---- Part I: one GraphSynthesisAgent and the lists handed to _optimize_graph
    nodes,              \* the node list passed to the latest _optimize_graph call
    edges,              \* the edge list passed to the latest _optimize_graph call
    optimized_nodes,    \* local of _optimize_graph: result of _merge_duplicate_nodes
    optimized_edges,    \* local of _optimize_graph: result of _merge_duplicate_edges
    connected_nodes,    \* returned node list
    valid_edges,        \* returned edge list
    first_nodes,        \* node list returned by the first call (kept for the second)
    first_edges,        \* edge list returned by the first call
    calls,              \* number of _optimize_graph calls made so far
    nodes_after,        \* the objects of the input node list after the latest call
    edges_after,        \* the objects of the input edge list after the latest call
    quality_metrics,    \* _calculate_quality_metrics of the returned lists
    \* ---- Part II: the graph store and the runs of execute_reasoning_pipeline
    g_nodes,            \* the nodes of the store: id -> [label, name]
    connected,          \* GraphDB.connected
    oracle_reply,       \* what the judgment service answers for the i-th pattern
    runs,               \* the thresholds execute_reasoning_pipeline is run with
    rels,               \* per run: the relationships of its store, in creation order
    pc,                 \* per run: position in execute_reasoning_pipeline
    patterns,           \* per run: the pattern dicts (verify updates them in place)
    idx,                \* per run: loop index of the verify / commit loop
    pipeline_result,    \* per run: the report under construction
    commit_log,         \* per run: the create_inferred_relationship calls made
    faults_left,        \* per run: query failures the store may still produce
    oracle_calls,       \* per run: the patterns the judgment service was asked about
    previous,           \* per run: what the earlier calls on the same store left
    \* ---- Part III: _generate_neo4j_creation_queries_with_source
    query_nodes,        \* the node list passed to the generator
    query_edges,        \* the edge list passed to the generator
    queries,            \* the statements it returned
    generated           \* whether it has been called

optVars == <<nodes, edges, optimized_nodes, optimized_edges, connected_nodes,
             valid_edges, first_nodes, first_edges, calls,
             nodes_after, edges_after, quality_metrics>>

pipeVars == <<g_nodes, connected, oracle_reply, runs, rels, pc, patterns, idx,
              pipeline_result, commit_log, faults_left, oracle_calls, previous>>

cypherVars == <<query_nodes, query_edges, queries, generated>>

vars == <<nodes, edges, optimized_nodes, optimized_edges, connected_nodes,
          valid_edges, first_nodes, first_edges, calls,
          nodes_after, edges_after, quality_metrics,
          g_nodes, connected, oracle_reply, runs, rels, pc, patterns, idx,
          pipeline_result, commit_log, faults_left, oracle_calls, previous,
          query_nodes, query_edges, queries, generated>>

(***************************************************************************)
(* Bounds of the model.                                                    *)
(***************************************************************************)
MaxNodes == 2          \* nodes in an input list of _optimize_graph
MaxEdges == 2          \* edges in an input list of _optimize_graph
MaxGraphEdges == 3     \* extracted relationships in the store
MaxFaults == 1         \* failing queries per pipeline run
MaxRecommits == 1      \* direct create_inferred_relationship calls after a run
MaxReruns == 1         \* further execute_reasoning_pipeline calls on the same store

(***************************************************************************)
(* Generic helpers.                                                        *)
(***************************************************************************)
Range(s) == {s[i] : i \in DOMAIN s}

SeqsUpTo(S, n) == UNION {[1..k -> S] : k \in 0..n}

Max(a, b) == IF a >= b THEN a ELSE b

\* SelectSeq with a predicate that may mention bound identifiers
RECURSIVE FilterSeq(_, _)
FilterSeq(s, keep) ==
    IF s = <<>> THEN <<>>
    ELSE (IF Head(s) \in keep THEN <<Head(s)>> ELSE <<>>) \o FilterSeq(Tail(s), keep)

(***************************************************************************)
(* Strings are sequences of one-character strings, so that str.lower() and *)
(* str.strip() are computed and not assumed.                               *)
(***************************************************************************)
LowerChar(c) ==
    CASE c = "A" -> "a"
      [] c = "B" -> "b"
      [] OTHER   -> c

\* str.lower()
Lower(s) == [i \in DOMAIN s |-> LowerChar(s[i])]

IsSpace(c) == c = " "

\* str.strip(): drop leading and trailing whitespace
RECURSIVE LStrip(_)
LStrip(s) == IF s # <<>> /\ IsSpace(Head(s)) THEN LStrip(Tail(s)) ELSE s

RECURSIVE RStrip(_)
RStrip(s) ==
    IF s # <<>> /\ IsSpace(s[Len(s)]) THEN RStrip(SubSeq(s, 1, Len(s) - 1)) ELSE s

Strip(s) == RStrip(LStrip(s))

(***************************************************************************)
(* dict.update: keys of both, values of the argument win.                  *)
(***************************************************************************)
DictUpdate(d, other) ==
    [k \in (DOMAIN d) \cup (DOMAIN other) |->
        IF k \in DOMAIN other THEN other[k] ELSE d[k]]

(***************************************************************************)
(* _merge_duplicate_nodes.  objs is the input list (the objects, which the *)
(* code mutates in place); order lists the positions of the objects kept   *)
(* in node_map, in insertion order.                                        *)
(***************************************************************************)
\* line 382: key = (node.label.lower().strip(), node.type)
NodeKey(node) == <<Strip(Lower(node.label)), node.type>>

\* line 387: if node.confidence > existing_node.confidence
NodeShouldMerge(new, existing) == new.confidence > existing.confidence

\* a merge that forgets to raise the confidence of the kept node
MergedConfidenceKeep(existing, new) == existing.confidence

\* line 390: existing_node.confidence = max(existing_node.confidence, node.confidence)
MergedConfidence(existing, new) == Max(existing.confidence, new.confidence)

RECURSIVE MergeNodesFrom(_, _, _)
MergeNodesFrom(objs, order, i) ==
    IF i > Len(objs) THEN [objs |-> objs, order |-> order]
    ELSE LET node == objs[i]
             hit  == {j \in Range(order) : NodeKey(objs[j]) = NodeKey(node)}
         IN  IF hit # {}
             THEN LET e == CHOOSE j \in hit : TRUE
                      existing_node == objs[e]
                  IN  IF NodeShouldMerge(node, existing_node)
                      THEN MergeNodesFrom(
                             [objs EXCEPT ![e] =
                                 [existing_node EXCEPT
                                    !.properties = DictUpdate(@, node.properties),
                                    !.confidence = MergedConfidence(existing_node, node)]],
                             order, i + 1)
                      ELSE MergeNodesFrom(objs, order, i + 1)
             ELSE MergeNodesFrom(objs, Append(order, i), i + 1)

\* [objs: the input objects after the call, out: list(node_map.values())]
merge_duplicate_nodes(ns) ==
    LET r == MergeNodesFrom(ns, <<>>, 1)
    IN  [objs |-> r.objs, out |-> [k \in DOMAIN r.order |-> r.objs[r.order[k]]]]

(***************************************************************************)
(* _merge_duplicate_edges.                                                 *)
(***************************************************************************)
\* line 402
EdgeKey(edge) == <<edge.source_id, edge.target_id, edge.relation_type>>

\* line 407: if edge.confidence > existing_edge.confidence
EdgeShouldMerge(new, existing) == new.confidence > existing.confidence

RECURSIVE MergeEdgesFrom(_, _, _)
MergeEdgesFrom(objs, order, i) ==
    IF i > Len(objs) THEN [objs |-> objs, order |-> order]
    ELSE LET edge == objs[i]
             hit  == {j \in Range(order) : EdgeKey(objs[j]) = EdgeKey(edge)}
         IN  IF hit # {}
             THEN LET e == CHOOSE j \in hit : TRUE
                      existing_edge == objs[e]
                  IN  IF EdgeShouldMerge(edge, existing_edge)
                      THEN MergeEdgesFrom(
                             [objs EXCEPT ![e] =
                                 [existing_edge EXCEPT
                                    !.properties = DictUpdate(@, edge.properties),
                                    !.confidence = Max(@, edge.confidence)]],
                             order, i + 1)
                      ELSE MergeEdgesFrom(objs, order, i + 1)
             ELSE MergeEdgesFrom(objs, Append(order, i), i + 1)

merge_duplicate_edges(es) ==
    LET r == MergeEdgesFrom(es, <<>>, 1)
    IN  [objs |-> r.objs, out |-> [k \in DOMAIN r.order |-> r.objs[r.order[k]]]]

(***************************************************************************)
(* _remove_isolated_nodes and _validate_edges.                             *)
(***************************************************************************)
\* lines 417-421
ConnectedNodeIds(es) ==
    {es[i].source_id : i \in DOMAIN es} \cup {es[i].target_id : i \in DOMAIN es}

\* line 423
remove_isolated_nodes(ns, es) ==
    FilterSeq(ns, {n \in Range(ns) : n.id \in ConnectedNodeIds(es)})

\* a validation that forgets the target endpoint
validate_edges_source_only(es, ns) ==
    LET node_ids == {ns[i].id : i \in DOMAIN ns}
    IN  FilterSeq(es, {e \in Range(es) : e.source_id \in node_ids})

\* lines 427-428
validate_edges(es, ns) ==
    LET node_ids == {ns[i].id : i \in DOMAIN ns}
    IN  FilterSeq(es, {e \in Range(es) :
                         e.source_id \in node_ids /\ e.target_id \in node_ids})

(***************************************************************************)
(* _optimize_graph: the four passes in the order of the code.              *)
(***************************************************************************)
optimize_graph(ns, es) ==
    LET mn == merge_duplicate_nodes(ns)
        me == merge_duplicate_edges(es)
        cn == remove_isolated_nodes(mn.out, me.out)
        ve == validate_edges(me.out, cn)
    IN  [optimized_nodes |-> mn.out, optimized_edges |-> me.out,
         connected_nodes |-> cn, valid_edges |-> ve,
         nodes_after |-> mn.objs, edges_after |-> me.objs]

(***************************************************************************)
(* _calculate_quality_metrics.  Python's true division is exact here: a    *)
(* quotient is kept as a fraction num / den.                               *)
(***************************************************************************)
Rat(num, den) == [num |-> num, den |-> den]

\* a / b for two fractions, b not zero
RatDiv(a, b) == Rat(a.num * b.den, a.den * b.num)

RatPositive(a) == a.num * a.den > 0

RECURSIVE SumConfidence(_)
SumConfidence(xs) == IF xs = <<>> THEN 0 ELSE Head(xs).confidence + SumConfidence(Tail(xs))

\* lines 463-464: max_edges and density
Density(node_count, edge_count) ==
    LET max_edges == IF node_count > 1
                     THEN Rat(node_count * (node_count - 1), 2)
                     ELSE Rat(1, 1)
    IN  IF RatPositive(max_edges) THEN RatDiv(Rat(edge_count, 1), max_edges)
        ELSE Rat(0, 1)

\* line 449: avg_degree
AverageDegree(node_count, edge_count) ==
    IF node_count > 0 THEN Rat(2 * edge_count, node_count) ELSE Rat(0, 1)

\* lines 441-477
calculate_quality_metrics(ns, es) ==
    IF ns = <<>>
    THEN [error |-> "No nodes in graph"]
    ELSE LET node_count == Len(ns)
             edge_count == Len(es)
         IN  [node_count |-> node_count,
              edge_count |-> edge_count,
              average_degree |-> AverageDegree(node_count, edge_count),
              graph_density |-> Density(node_count, edge_count),
              average_node_confidence |->
                  IF ns # <<>> THEN Rat(SumConfidence(ns), Len(ns)) ELSE Rat(0, 1),
              average_edge_confidence |->
                  IF es # <<>> THEN Rat(SumConfidence(es), Len(es)) ELSE Rat(0, 1),
              node_type_diversity |-> Cardinality({ns[i].type : i \in DOMAIN ns}),
              edge_type_diversity |-> Cardinality({es[i].relation_type : i \in DOMAIN es}),
              node_types |-> {ns[i].type : i \in DOMAIN ns},
              edge_types |-> {es[i].relation_type : i \in DOMAIN es}]

\* self.quality_metrics before any synthesis (line 132): a dict without any
\* metric key
NoMetrics == [empty |-> TRUE]

(***************************************************************************)
(* Inputs of _optimize_graph.                                              *)
(***************************************************************************)
\* default identifiers of _build_graph_nodes_with_source / _build_graph_edges_with_source
EntityIds == <<"entity_0", "entity_1", "entity_2", "entity_3">>
RelIds    == <<"rel_0", "rel_1", "rel_2", "rel_3">>

NodeIds     == {"entity_0", "entity_1"}
Labels      == {<<"A">>, <<"a", " ">>}
MergeLabels == {<<"A">>, <<" ", "a">>, <<"B">>}
Types       == {"PERSON", "ORG"}
Confidences == {6, 8}                    \* tenths: 0.6 and 0.8

\* property maps of the two builders that can meet under one merge key
EntityProps   == [extraction_method |-> "entity_extraction", name |-> "A"]
TemporalProps == [extraction_method |-> "temporal_analysis", timestamp |-> "t"]
NodePropMaps  == {EntityProps, TemporalProps}

RelationProps == [extraction_method |-> "relation_extraction", context |-> "c"]
EnhancedProps == [extraction_method |-> "relation_enhancement", semantic_weight |-> 5]
EdgePropMaps  == {RelationProps, EnhancedProps}

RelationTypes == {"WORKS_AT", "KNOWS"}

\* every builder record brings the sentence it was extracted from
\* (lines 231 and 247)
MkNode(id, label, type, props, conf) ==
    [id |-> id, label |-> label, type |-> type, properties |-> props, confidence |-> conf,
     source_sentence |-> <<"sentence_of", id>>]

MkEdge(id, src, tgt, rel, props, conf) ==
    [id |-> id, source_id |-> src, target_id |-> tgt, relation_type |-> rel,
     properties |-> props, confidence |-> conf]

\* (S) lists that vary in identifier, label, type and edge endpoints
StructNodeLists ==
    {[i \in DOMAIN c |-> MkNode(c[i][1], c[i][2], c[i][3], EntityProps, 8)] :
        c \in SeqsUpTo(NodeIds \X Labels \X Types, MaxNodes)}

StructEdgeLists ==
    {[i \in DOMAIN c |-> MkEdge(RelIds[i], c[i][1], c[i][2], "WORKS_AT", RelationProps, 8)] :
        c \in SeqsUpTo(NodeIds \X NodeIds, MaxEdges)}

\* (N) node lists that vary in label, properties and confidence
MergeNodeLists ==
    {[i \in DOMAIN c |-> MkNode(EntityIds[i], c[i][1], "PERSON", c[i][2], c[i][3])] :
        c \in SeqsUpTo(MergeLabels \X NodePropMaps \X Confidences, MaxNodes)}

\* (E) edge lists that vary in relation type, properties and confidence
MergeEdgeLists ==
    {[i \in DOMAIN c |-> MkEdge(RelIds[i], "entity_0", "entity_1", c[i][1], c[i][2], c[i][3])] :
        c \in SeqsUpTo(RelationTypes \X EdgePropMaps \X Confidences, MaxEdges)}

TwoNodes == <<MkNode("entity_0", <<"A">>, "PERSON", EntityProps, 8),
              MkNode("entity_1", <<"B">>, "ORG", EntityProps, 8)>>

OneEdge == <<MkEdge("rel_0", "entity_0", "entity_1", "WORKS_AT", RelationProps, 8)>>

OptInputs ==
    (StructNodeLists \X StructEdgeLists)
    \cup (MergeNodeLists \X {OneEdge})
    \cup ({TwoNodes} \X MergeEdgeLists)

\* the confidence scale of the reasoning tools: '高', '中', '低'
Thresholds == {"high", "medium", "low"}

\* lines 375-382: the report execute_reasoning_pipeline starts from
EmptyResult ==
    [patterns_found |-> 0, patterns_verified |-> 0, relationships_created |-> 0,
     created_relationships |-> <<>>, failed_creations |-> <<>>,
     execution_summary |-> "empty"]

\* no reasoning pipeline is running and no store is attached
PipeOff ==
    /\ g_nodes = <<>>
    /\ connected = FALSE
    /\ oracle_reply = <<>>
    /\ runs = {}
    /\ rels = [t \in Thresholds |-> <<>>]
    /\ pc = [t \in Thresholds |-> "off"]
    /\ patterns = [t \in Thresholds |-> <<>>]
    /\ idx = [t \in Thresholds |-> 0]
    /\ pipeline_result = [t \in Thresholds |-> EmptyResult]
    /\ commit_log = [t \in Thresholds |-> <<>>]
    /\ faults_left = [t \in Thresholds |-> 0]
    /\ oracle_calls = [t \in Thresholds |-> <<>>]
    /\ previous = [t \in Thresholds |-> <<>>]

\* no statement generation is running
CypherOff ==
    /\ query_nodes = <<>>
    /\ query_edges = <<>>
    /\ queries = <<>>
    /\ generated = FALSE

\* no synthesis is running
OptOff ==
    /\ nodes = <<>>
    /\ edges = <<>>
    /\ optimized_nodes = <<>>
    /\ optimized_edges = <<>>
    /\ connected_nodes = <<>>
    /\ valid_edges = <<>>
    /\ first_nodes = <<>>
    /\ first_edges = <<>>
    /\ calls = 0
    /\ nodes_after = <<>>
    /\ edges_after = <<>>
    /\ quality_metrics = NoMetrics

InitOpt ==
    /\ PipeOff
    /\ CypherOff
    /\ \E inp \in OptInputs : nodes = inp[1] /\ edges = inp[2]
    /\ optimized_nodes = <<>>
    /\ optimized_edges = <<>>
    /\ connected_nodes = <<>>
    /\ valid_edges = <<>>
    /\ first_nodes = <<>>
    /\ first_edges = <<>>
    /\ calls = 0
    /\ nodes_after = <<>>
    /\ edges_after = <<>>
    /\ quality_metrics = NoMetrics

(***************************************************************************)
(* synthesize_knowledge_graph calls _optimize_graph on the built lists     *)
(* and _calculate_quality_metrics on what it returns (lines 181-184); the  *)
(* second call feeds the returned lists back in.                           *)
(***************************************************************************)
OptimizeGraph ==
    /\ calls = 0
    /\ LET r == optimize_graph(nodes, edges)
       IN  /\ optimized_nodes' = r.optimized_nodes
           /\ optimized_edges' = r.optimized_edges
           /\ connected_nodes' = r.connected_nodes
           /\ valid_edges' = r.valid_edges
           /\ nodes_after' = r.nodes_after
           /\ edges_after' = r.edges_after
           /\ quality_metrics' = calculate_quality_metrics(r.connected_nodes, r.valid_edges)
           /\ first_nodes' = r.connected_nodes
           /\ first_edges' = r.valid_edges
    /\ calls' = 1
    /\ UNCHANGED <<nodes, edges>>
    /\ UNCHANGED pipeVars
    /\ UNCHANGED cypherVars

OptimizeAgain ==
    /\ calls = 1
    /\ nodes' = connected_nodes
    /\ edges' = valid_edges
    /\ LET r == optimize_graph(connected_nodes, valid_edges)
       IN  /\ optimized_nodes' = r.optimized_nodes
           /\ optimized_edges' = r.optimized_edges
           /\ connected_nodes' = r.connected_nodes
           /\ valid_edges' = r.valid_edges
           /\ nodes_after' = r.nodes_after
           /\ edges_after' = r.edges_after
           /\ quality_metrics' = calculate_quality_metrics(r.connected_nodes, r.valid_edges)
    /\ calls' = 2
    /\ UNCHANGED <<first_nodes, first_edges>>
    /\ UNCHANGED pipeVars
    /\ UNCHANGED cypherVars

NextOpt == OptimizeGraph \/ OptimizeAgain

SpecOpt == InitOpt /\ [][NextOpt]_vars

(***************************************************************************)
(* Properties of _optimize_graph (checked under SpecOpt).                  *)
(***************************************************************************)
NodeIdsOf(ns) == {ns[i].id : i \in DOMAIN ns}

GroupOf(m, ns) == {n \in Range(ns) : NodeKey(n) = NodeKey(m)}

MaxConfidence(S) == CHOOSE c \in {n.confidence : n \in S} :
                        \A n \in S : n.confidence <= c

\* C1: running _optimize_graph on the lists it returned yields the same node
\* set and the same edge set again.
C1_OptimizeIdempotent ==
    calls = 2 =>
        /\ Range(connected_nodes) = Range(first_nodes)
        /\ Range(valid_edges) = Range(first_edges)

\* C2: with a non-empty input edge list, every returned node is an endpoint
\* of at least one returned edge.
C2_NoIsolatedNode ==
    (calls = 1 /\ edges # <<>>) =>
        \A n \in Range(connected_nodes) : n.id \in ConnectedNodeIds(valid_edges)

\* C3: every returned edge has its source_id and its target_id among the
\* identifiers of the returned nodes.
C3_NoDanglingEdge ==
    calls >= 1 =>
        \A e \in Range(valid_edges) :
            /\ e.source_id \in NodeIdsOf(connected_nodes)
            /\ e.target_id \in NodeIdsOf(connected_nodes)

\* C3 witness: validation dropped an edge with a missing endpoint and kept another.
C3_Witness ==
    /\ calls = 1
    /\ valid_edges # <<>>
    /\ Len(valid_edges) < Len(optimized_edges)

\* C4: each merge-key group of input nodes leaves exactly one merged node, and
\* its confidence is the maximum confidence of the group, in any input order.
C4_MergedConfidenceIsMax ==
    calls = 1 =>
        /\ \A n \in Range(nodes) :
              Cardinality({k \in DOMAIN optimized_nodes :
                             NodeKey(optimized_nodes[k]) = NodeKey(n)}) = 1
        /\ \A m \in Range(optimized_nodes) :
              m.confidence = MaxConfidence(GroupOf(m, nodes))

\* C4 witness: a later node with a different spelling of the label and a higher
\* confidence was merged into an earlier one.
C4_Witness ==
    /\ calls = 1
    /\ Len(nodes) = 2
    /\ nodes[1].label # nodes[2].label
    /\ NodeKey(nodes[1]) = NodeKey(nodes[2])
    /\ nodes[1].confidence < nodes[2].confidence
    /\ Len(optimized_nodes) = 1
    /\ optimized_nodes[1].confidence = nodes[2].confidence

\* C5: the merged node's property map has every property key of every input
\* node of its group, whichever came first and whichever had the higher
\* confidence.
C5_MergeKeepsEveryPropertyKey ==
    calls = 1 =>
        \A m \in Range(optimized_nodes) :
            \A n \in GroupOf(m, nodes) :
                DOMAIN n.properties \subseteq DOMAIN m.properties

\* C6: two edges with the same (source_id, target_id, relation_type), different
\* confidences and different properties merge into one edge with the larger
\* confidence and the union of both property maps, the same in both input orders.
C6_EdgeMergeUnionBothOrders ==
    (/\ calls = 1
     /\ Len(edges) = 2
     /\ EdgeKey(edges[1]) = EdgeKey(edges[2])
     /\ edges[1].confidence # edges[2].confidence
     /\ edges[1].properties # edges[2].properties)
    => LET swapped == merge_duplicate_edges(<<edges[2], edges[1]>>).out
       IN  /\ Len(optimized_edges) = 1
           /\ optimized_edges[1].confidence =
                 Max(edges[1].confidence, edges[2].confidence)
           /\ DOMAIN optimized_edges[1].properties =
                 (DOMAIN edges[1].properties) \cup (DOMAIN edges[2].properties)
           /\ Len(swapped) = 1
           /\ swapped[1].confidence = optimized_edges[1].confidence
           /\ swapped[1].properties = optimized_edges[1].properties

(***************************************************************************)
(* Part II.  The graph store.                                              *)
(*                                                                         *)
(* Labels, relationship types and verdicts are written in English:         *)
(*   Person 人物, Org 机构, Paper 论文, Project 项目, System 系统,         *)
(*   Tech 技术, Algorithm 算法, Model 模型;                                *)
(*   WORKS_AT 工作于, HOLDS_POST_AT 任职于, EMPLOYED_AT 就职于,            *)
(*   GRADUATED_FROM 毕业于, ENROLLED_AT 就读于, STUDIES_AT 学习于,         *)
(*   TAKES_PART 参与, PUBLISHED 发表, COOPERATES 合作, PROPOSED 提出,      *)
(*   INVENTED 发明, IMPROVED 改进, BASED_ON 基于, USES 使用;               *)
(*   high 高, medium 中, low 低.                                           *)
(* A relationship type is a sequence of words, so that the type of an      *)
(* inferred relationship is built as the code builds it.                   *)
(***************************************************************************)
Null == "None"

\* dict.get(k) and a Cypher property read: None / null when the key is absent
Get(d, k) == IF k \in DOMAIN d THEN d[k] ELSE Null

\* Python truthiness of an optional string
Truthy(x) == x # Null /\ x # ""

\* Python: a or b
Or(a, b) == IF Truthy(a) THEN a ELSE b

Min(a, b) == IF a <= b THEN a ELSE b

Label(n) == g_nodes[n].label
Name(n)  == g_nodes[n].name

\* lines 113-126 of graph_db.py: no rows when the store is not connected or
\* the query raises
execute_query(is_connected, fails, rows) ==
    IF ~is_connected \/ fails THEN <<>> ELSE rows

\* a set of tuples of relationship positions, as a list in ascending order
RECURSIVE TupleKey(_, _, _)
TupleKey(m, k, base) ==
    IF k = 0 THEN 0 ELSE TupleKey(m, k - 1, base) * base + m[k]

RECURSIVE OrderedMatches(_, _)
OrderedMatches(S, base) ==
    IF S = {} THEN <<>>
    ELSE LET first == CHOOSE m \in S :
                         \A o \in S : TupleKey(m, Len(m), base) <= TupleKey(o, Len(o), base)
         IN  <<first>> \o OrderedMatches(S \ {first}, base)

\* MATCH (a:la)-[:ta]->(m:lm)<-[:tb]-(b:lb): the pairs of distinct
\* relationships that meet in a node m
TwoHop(rs, la, ta, lm, tb, lb) ==
    {m \in (DOMAIN rs) \X (DOMAIN rs) :
        /\ m[1] # m[2]
        /\ rs[m[1]].type \in ta
        /\ rs[m[2]].type \in tb
        /\ rs[m[1]].tgt = rs[m[2]].tgt
        /\ Label(rs[m[1]].src) \in la
        /\ Label(rs[m[1]].tgt) \in lm
        /\ Label(rs[m[2]].src) \in lb}

\* Cypher a <> b: null (so the row is dropped) when either side is null
CypherNeq(a, b) == a # Null /\ b # Null /\ a # b

\* a work-relation list that also has the inferred colleague type
WorkTypesWithInferred ==
    {<<"WORKS_AT">>, <<"HOLDS_POST_AT">>, <<"EMPLOYED_AT">>, <<"inferred", "colleague">>}

WorkTypes   == {<<"WORKS_AT">>, <<"HOLDS_POST_AT">>, <<"EMPLOYED_AT">>}
StudyTypes  == {<<"GRADUATED_FROM">>, <<"ENROLLED_AT">>, <<"STUDIES_AT">>}
CollabTypes == {<<"TAKES_PART">>, <<"PUBLISHED">>, <<"COOPERATES">>}

\* lines 21-25
CommonWorkplaceRows(rs) ==
    LET M == {m \in TwoHop(rs, {"Person"}, WorkTypes, {"Org"}, WorkTypes, {"Person"}) :
                 rs[m[1]].src < rs[m[2]].src}
        ms == OrderedMatches(M, Len(rs) + 1)
    IN  [k \in DOMAIN ms |->
            [person1 |-> Name(rs[ms[k][1]].src), person2 |-> Name(rs[ms[k][2]].src),
             organization |-> Name(rs[ms[k][1]].tgt)]]

\* lines 31-35
CommonEducationRows(rs) ==
    LET M == {m \in TwoHop(rs, {"Person"}, StudyTypes, {"Org"}, StudyTypes, {"Person"}) :
                 rs[m[1]].src < rs[m[2]].src}
        ms == OrderedMatches(M, Len(rs) + 1)
    IN  [k \in DOMAIN ms |->
            [person1 |-> Name(rs[ms[k][1]].src), person2 |-> Name(rs[ms[k][2]].src),
             education |-> Name(rs[ms[k][1]].tgt)]]

\* lines 41-45
CollaborationRows(rs) ==
    LET M == {m \in TwoHop(rs, {"Person"}, CollabTypes, {"Paper", "Project", "System"},
                           CollabTypes, {"Person"}) :
                 rs[m[1]].src < rs[m[2]].src}
        ms == OrderedMatches(M, Len(rs) + 1)
    IN  [k \in DOMAIN ms |->
            [person1 |-> Name(rs[ms[k][1]].src), person2 |-> Name(rs[ms[k][2]].src),
             project |-> Name(rs[ms[k][1]].tgt)]]

\* lines 51-56
MentorStudentRows(rs) ==
    LET A == TwoHop(rs, {"Person"}, {<<"WORKS_AT">>}, {"Org"},
                    {<<"STUDIES_AT">>, <<"ENROLLED_AT">>}, {"Person"})
        B == TwoHop(rs, {"Person"}, {<<"PUBLISHED">>}, {"Paper"},
                    {<<"TAKES_PART">>}, {"Person"})
        M == {<<a[1], a[2], b[1], b[2]>> : a \in A, b \in B}
        W == {m \in M :
                 /\ rs[m[1]].src = rs[m[3]].src
                 /\ rs[m[2]].src = rs[m[4]].src
                 /\ CypherNeq(Name(rs[m[1]].src), Name(rs[m[2]].src))}
        ms == OrderedMatches(W, Len(rs) + 1)
    IN  [k \in DOMAIN ms |->
            [mentor |-> Name(rs[ms[k][1]].src), student |-> Name(rs[ms[k][2]].src),
             institution |-> Name(rs[ms[k][1]].tgt)]]

\* lines 62-66
TechnologyTransferRows(rs) ==
    LET M == {m \in TwoHop(rs, {"Person"}, {<<"PROPOSED">>, <<"INVENTED">>},
                           {"Tech", "Algorithm", "Model"},
                           {<<"IMPROVED">>, <<"BASED_ON">>, <<"USES">>}, {"Person"}) :
                 CypherNeq(Name(rs[m[1]].src), Name(rs[m[2]].src))}
        ms == OrderedMatches(M, Len(rs) + 1)
    IN  [k \in DOMAIN ms |->
            [innovator |-> Name(rs[ms[k][1]].src), follower |-> Name(rs[ms[k][2]].src),
             technology |-> Name(rs[ms[k][1]].tgt)]]

\* lines 18-69: the catalog, in dict order; an inferred_relationship name is a
\* sequence of words ("同事关系" is colleague + relation)
PATTERN_QUERIES ==
    <<[name |-> "common_workplace", inferred_relationship |-> <<"colleague", "relation">>],
      [name |-> "common_education", inferred_relationship |-> <<"alumni", "relation">>],
      [name |-> "collaboration_through_project",
       inferred_relationship |-> <<"collaboration", "relation">>],
      [name |-> "mentor_student_pattern",
       inferred_relationship |-> <<"mentorship", "relation">>],
      [name |-> "technology_transfer",
       inferred_relationship |-> <<"technology", "influence">>]>>

\* the rows a catalog query returns on the relationships rs
CypherRows(pattern_name, rs) ==
    CASE pattern_name = "common_workplace" -> CommonWorkplaceRows(rs)
      [] pattern_name = "common_education" -> CommonEducationRows(rs)
      [] pattern_name = "collaboration_through_project" -> CollaborationRows(rs)
      [] pattern_name = "mentor_student_pattern" -> MentorStudentRows(rs)
      [] pattern_name = "technology_transfer" -> TechnologyTransferRows(rs)

EmptyText == [sentences |-> <<>>, length |-> 0]

\* lines 94-100; verification, evidence_text and reasoning are the keys that
\* verify_hypothesis_from_text adds later (absent: None)
PatternDict(pattern_config, result) ==
    [type |-> pattern_config.name,
     inferred_relationship |-> pattern_config.inferred_relationship,
     entities |-> result,
     confidence |-> "unknown",
     verification |-> Null,
     evidence_text |-> EmptyText,
     reasoning |-> Null]

\* lines 85-110: failing is the set of catalog positions whose query fails
RECURSIVE DiscoverFrom(_, _, _, _)
DiscoverFrom(q, rs, is_connected, failing) ==
    IF q > Len(PATTERN_QUERIES) THEN <<>>
    ELSE LET pattern_config == PATTERN_QUERIES[q]
             results == execute_query(is_connected, q \in failing,
                                      CypherRows(pattern_config.name, rs))
         IN  [k \in DOMAIN results |-> PatternDict(pattern_config, results[k])]
             \o DiscoverFrom(q + 1, rs, is_connected, failing)

find_interesting_patterns(rs, is_connected, failing) ==
    DiscoverFrom(1, rs, is_connected, failing)

(***************************************************************************)
(* verify_hypothesis_from_text.                                            *)
(***************************************************************************)
SentenceLen == 120          \* characters in one provenance sentence of the model
EvidenceSentenceCap == 10   \* line 144: evidence_sentences[:10]
SummaryLimit == 200         \* lines 271 and 324: evidence_text[:200]
EllipsisLen == 3            \* lines 271 and 324: '...'

\* Cypher x IN list: never true for a null x
CypherIn(x, names) == x # Null /\ x \in names

\* lines 133-138: MATCH (n)-[r]-(m) matches a relationship in both
\* orientations; AND binds tighter than OR, so a row needs only an endpoint
\* whose name is listed.  The positions of the matching relationships.
EvidenceWhere(rs, k, n, m, entity_names) ==
    \/ CypherIn(Name(n), entity_names)
    \/ (CypherIn(Name(m), entity_names) /\ Get(rs[k].props, "source_sentence") # Null)

EvidenceMatches(rs, entity_names) ==
    {k \in DOMAIN rs :
        \/ EvidenceWhere(rs, k, rs[k].src, rs[k].tgt, entity_names)
        \/ EvidenceWhere(rs, k, rs[k].tgt, rs[k].src, entity_names)}

\* RETURN DISTINCT r.source_sentence, then line 143 drops the empty ones
RECURSIVE DistinctSentences(_, _, _, _)
DistinctSentences(rs, M, k, seen) ==
    IF k > Len(rs) THEN <<>>
    ELSE LET sentence == Get(rs[k].props, "source_sentence")
         IN  IF k \in M /\ Truthy(sentence) /\ sentence \notin seen
             THEN <<sentence>> \o DistinctSentences(rs, M, k + 1, seen \cup {sentence})
             ELSE DistinctSentences(rs, M, k + 1, seen)

\* line 144: " ".join(evidence_sentences[:10])
JoinSentences(ss) ==
    LET kept == SubSeq(ss, 1, Min(EvidenceSentenceCap, Len(ss)))
    IN  [sentences |-> kept,
         length |-> IF kept = <<>> THEN 0 ELSE Len(kept) * SentenceLen + (Len(kept) - 1)]

\* an evidence query that marks the relationships it has read
EvidenceQueryStoreMarking(rs) ==
    [k \in DOMAIN rs |-> [rs[k] EXCEPT !.props = DictUpdate(@, [checked |-> "yes"])]]

\* lines 133-138: the evidence query is MATCH ... WHERE ... RETURN DISTINCT and
\* has no writing clause: the relationships of the store after it has run
EvidenceQueryStore(rs) == rs

\* lines 21-66: every catalog query is MATCH ... WHERE ... RETURN and has no
\* writing clause: the relationships of the store after discovery
CatalogQueryStore(rs) == rs

\* a key that a JSON object does not have (None is a JSON null that it has)
Absent == "absent"

\* What the judgment service does with one request.  transport: whether
\* client.chat.completions.create returns or raises; json: what json.loads
\* makes of the content extracted from the reply (text that is no JSON, an
\* object, or a JSON value that is no object); confidence and reasoning: the
\* two keys of the object.
OracleReply(transport, json, confidence, reasoning) ==
    [transport |-> transport, json |-> json, confidence |-> confidence,
     reasoning |-> reasoning]

\* answers that are JSON objects with both keys; "other" is a confidence
\* outside the scale
ScaleReplies ==
    {OracleReply("ok", "object", c, "oracle_reasoning") :
        c \in {"high", "medium", "low", "other"}}

OracleReplies ==
    ScaleReplies
    \cup {OracleReply("ok", "object", "high", Null),
          OracleReply("ok", "object", Absent, "oracle_reasoning"),
          OracleReply("ok", "object", Absent, Absent),
          OracleReply("ok", "invalid", Absent, Absent),
          OracleReply("ok", "array", Absent, Absent),
          OracleReply("error", "invalid", Absent, Absent)}

\* dict.get(key, default) on the parsed object
GetOrDefault(value, default) == IF value = Absent THEN default ELSE value

\* lines 194-218: json.loads and the two .get calls.  raised: an exception
\* other than JSONDecodeError leaves the inner try (.get on a value that is
\* no dict)
ParseReply(reply) ==
    IF reply.json = "invalid"
    THEN [raised |-> FALSE, confidence |-> "low", reasoning |-> "parse_failed"]
    ELSE IF reply.json # "object"
    THEN [raised |-> TRUE, confidence |-> Null, reasoning |-> Null]
    ELSE [raised |-> FALSE,
          confidence |-> GetOrDefault(reply.confidence, "low"),
          reasoning |-> GetOrDefault(reply.reasoning, "cannot_parse_reply")]

\* a test that never finds the evidence text empty
EvidenceIsEmptyNever(evidence_text) == FALSE

\* line 146: not evidence_text.strip()
EvidenceIsEmpty(evidence_text) == evidence_text.length = 0

\* lines 127-233: [pattern: the updated pattern dict, oracle_called: whether
\* client.chat.completions.create was called]
VerifyOutcome(pattern, rs, is_connected, fails, reply) ==
    LET entities == pattern.entities
        entity_names == {entities[k] : k \in DOMAIN entities}
        evidence_results ==
            execute_query(is_connected, fails,
                          DistinctSentences(rs, EvidenceMatches(rs, entity_names), 1, {}))
        evidence_text == JoinSentences(evidence_results)
        parsed == ParseReply(reply)
    IN  IF EvidenceIsEmpty(evidence_text)
        THEN [pattern |-> [pattern EXCEPT !.verification = "low",
                                          !.evidence_text = EmptyText,
                                          !.reasoning = "insufficient_evidence"],
              oracle_called |-> FALSE]
        ELSE IF reply.transport = "error" \/ parsed.raised
        THEN [pattern |-> [pattern EXCEPT !.verification = "low",
                                          !.evidence_text = EmptyText,
                                          !.reasoning = "verification_error"],
              oracle_called |-> TRUE]
        ELSE [pattern |-> [pattern EXCEPT !.verification = parsed.confidence,
                                          !.evidence_text = evidence_text,
                                          !.reasoning = parsed.reasoning],
              oracle_called |-> TRUE]

verify_hypothesis_from_text(pattern, rs, is_connected, fails, reply) ==
    VerifyOutcome(pattern, rs, is_connected, fails, reply).pattern

(***************************************************************************)
(* create_inferred_relationship.                                           *)
(***************************************************************************)
\* line 255: inferred_relationship.replace('关系', '')
relationship_type(verified_pattern) ==
    SelectSeq(verified_pattern.inferred_relationship, LAMBDA w : w # "relation")

\* lines 279, 288, 331: the type 推理_<relationship_type>
InferredType(verified_pattern) == <<"inferred">> \o relationship_type(verified_pattern)

\* lines 271 and 324
EvidenceSummary(evidence_text) ==
    IF evidence_text.length > SummaryLimit
    THEN [sentences |-> evidence_text.sentences, length |-> SummaryLimit + EllipsisLen,
          ellipsis |-> TRUE]
    ELSE [sentences |-> evidence_text.sentences, length |-> evidence_text.length,
          ellipsis |-> FALSE]

\* lines 267-273 and 320-326
relationship_properties(verified_pattern) ==
    [type |-> "INFERRED",
     confidence |-> verified_pattern.verification,
     reasoning |-> verified_pattern.reasoning,
     evidence_summary |-> EvidenceSummary(verified_pattern.evidence_text),
     pattern_type |-> verified_pattern.type]

\* MATCH (a), (b) WHERE a.name = $x AND b.name = $y: the node pairs, in order
NamePairs(x, y) ==
    OrderedMatches({m \in (DOMAIN g_nodes) \X (DOMAIN g_nodes) :
                       /\ x # Null /\ Name(m[1]) = x
                       /\ y # Null /\ Name(m[2]) = y},
                   Len(g_nodes) + 1)

\* the keys of relationship_properties whose value is a string or None
\* (evidence_summary is always a text)
NullableKeys == {"type", "confidence", "reasoning", "pattern_type"}

\* SET r += props: the keys of props are set on r, and a key whose value is
\* null is removed from r
CypherSetMap(old, props) ==
    LET removed == {k \in (DOMAIN props) \cap NullableKeys : props[k] = Null}
    IN  [k \in ((DOMAIN old) \cup (DOMAIN props)) \ removed |->
            IF k \in DOMAIN props THEN props[k] ELSE old[k]]

\* a relationship that MERGE has just created has no property
NoProps == [k \in {} |-> Null]

\* a CREATE in place of the MERGE: a relationship is added for every pair
RECURSIVE CreateRel(_, _, _, _)
CreateRel(rs, pairs, type, props) ==
    IF pairs = <<>> THEN rs
    ELSE CreateRel(Append(rs, [src |-> Head(pairs)[1], type |-> type,
                               tgt |-> Head(pairs)[2], props |-> props]),
                   Tail(pairs), type, props)

\* MERGE (a)-[r:type]->(b) SET r += props, for each pair <<a, b>> in turn:
\* the relationships of that type from a to b get the properties; when there
\* is none, one is created
RECURSIVE MergeRel(_, _, _, _)
MergeRel(rs, pairs, type, props) ==
    IF pairs = <<>> THEN rs
    ELSE LET a == Head(pairs)[1]
             b == Head(pairs)[2]
             found == {k \in DOMAIN rs :
                          rs[k].src = a /\ rs[k].tgt = b /\ rs[k].type = type}
             next == IF found # {}
                     THEN [k \in DOMAIN rs |->
                             IF k \in found
                             THEN [rs[k] EXCEPT !.props = CypherSetMap(@, props)]
                             ELSE rs[k]]
                     ELSE Append(rs, [src |-> a, type |-> type, tgt |-> b,
                                      props |-> CypherSetMap(NoProps, props)])
         IN  MergeRel(next, Tail(pairs), type, props)

Reverse(pairs) == [k \in DOMAIN pairs |-> <<pairs[k][2], pairs[k][1]>>]

Triples(pairs, type) == {<<pairs[k][1], pairs[k][2], type>> : k \in DOMAIN pairs}

TwoSidedTypes == {"common_workplace", "common_education", "collaboration_through_project"}
OneSidedTypes == {"mentor_student_pattern", "technology_transfer"}

\* a report that counts every answer but the skip as a creation
IsSuccessUnlessSkipped(msg) == msg.kind # "skipped_not_high"

\* "成功创建" in result_msg
IsSuccess(msg) == msg.kind \in {"created_bidirectional", "created_unidirectional"}

\* lines 254-354: what create_inferred_relationship does once the verdict is
\* accepted; f1 and f2 tell whether the first and the second query fail
WriteInferred(verified_pattern, rs, is_connected, f1, f2) ==
    LET entities == verified_pattern.entities
        type == InferredType(verified_pattern)
        props == relationship_properties(verified_pattern)
    IN  IF verified_pattern.type \in TwoSidedTypes
        THEN LET person1 == Or(Or(Get(entities, "person1"), Get(entities, "mentor")),
                               Get(entities, "innovator"))
                 person2 == Or(Or(Get(entities, "person2"), Get(entities, "student")),
                               Get(entities, "follower"))
                 pairs == NamePairs(person1, person2)
                 ok1 == is_connected /\ ~f1
                 ok2 == is_connected /\ ~f2
                 rs1 == IF ok1 THEN MergeRel(rs, pairs, type, props) ELSE rs
                 rs2 == IF ok2 THEN MergeRel(rs1, Reverse(pairs), type, props) ELSE rs1
                 result1 == execute_query(is_connected, f1, pairs)
                 result2 == execute_query(is_connected, f2, pairs)
             IN  IF ~Truthy(person1) \/ ~Truthy(person2)
                 THEN [msg |-> [kind |-> "cannot_identify_pair"], rels |-> rs,
                       written |-> {}]
                 ELSE [msg |-> IF result1 # <<>> /\ result2 # <<>>
                               THEN [kind |-> "created_bidirectional", source |-> person1,
                                     target |-> person2, type |-> type]
                               ELSE [kind |-> "create_failed_no_result"],
                       rels |-> rs2,
                       written |-> (IF ok1 THEN Triples(pairs, type) ELSE {})
                                   \cup (IF ok2 THEN Triples(Reverse(pairs), type) ELSE {})]
        ELSE IF verified_pattern.type \in OneSidedTypes
        THEN LET source == Or(Get(entities, "mentor"), Get(entities, "innovator"))
                 target == Or(Get(entities, "student"), Get(entities, "follower"))
                 pairs == NamePairs(source, target)
                 ok == is_connected /\ ~f1
                 result == execute_query(is_connected, f1, pairs)
             IN  IF ~Truthy(source) \/ ~Truthy(target)
                 THEN [msg |-> [kind |-> "cannot_identify_source_target"], rels |-> rs,
                       written |-> {}]
                 ELSE [msg |-> IF result # <<>>
                               THEN [kind |-> "created_unidirectional", source |-> source,
                                     target |-> target, type |-> type]
                               ELSE [kind |-> "create_failed_no_result"],
                       rels |-> IF ok THEN MergeRel(rs, pairs, type, props) ELSE rs,
                       written |-> IF ok THEN Triples(pairs, type) ELSE {}]
        ELSE [msg |-> [kind |-> "unknown_pattern_type"], rels |-> rs, written |-> {}]

\* line 251: verified_pattern.get('verification') != '高' returns early
VerificationIsHigh(verification) == verification = "high"

\* lines 249-359: [msg: the returned message, rels: the relationships of the
\* store afterwards, written: the (source, target, type) triples the queries set]
create_inferred_relationship(verified_pattern, rs, is_connected, f1, f2) ==
    IF ~VerificationIsHigh(verified_pattern.verification)
    THEN [msg |-> [kind |-> "skipped_not_high",
                   verification |-> verified_pattern.verification],
          rels |-> rs, written |-> {}]
    ELSE WriteInferred(verified_pattern, rs, is_connected, f1, f2)

(***************************************************************************)
(* execute_reasoning_pipeline, one step per loop iteration.                *)
(***************************************************************************)
\* lines 398-401: whether the verified counter is incremented
CountsAsVerified(verification, confidence_threshold) ==
    IF verification \in {"high", "medium"} /\ confidence_threshold \in {"high", "medium"}
    THEN TRUE
    ELSE verification = confidence_threshold

\* a gate that compares for equality at the lowest threshold
ShouldCreateExactLow(confidence_threshold, verification) ==
    \/ confidence_threshold = "high" /\ verification = "high"
    \/ confidence_threshold = "medium" /\ verification \in {"high", "medium"}
    \/ confidence_threshold = "low" /\ verification = "low"

\* lines 406-414: should_create
ShouldCreate(confidence_threshold, verification) ==
    \/ confidence_threshold = "high" /\ verification = "high"
    \/ confidence_threshold = "medium" /\ verification \in {"high", "medium"}
    \/ confidence_threshold = "low" /\ verification \in {"high", "medium", "low"}

NotCalled == [msg |-> [kind |-> "not_called"], rels |-> <<>>, written |-> {}]

\* a commit step that writes for every verified pattern, whatever the verdict
CommitStepUngated(confidence_threshold, verified_pattern, rs, is_connected, f1, f2) ==
    WriteInferred(verified_pattern, rs, is_connected, f1, f2)

\* lines 404-417: the commit step for one verified pattern
CommitStep(confidence_threshold, verified_pattern, rs, is_connected, f1, f2) ==
    IF ShouldCreate(confidence_threshold, verified_pattern.verification)
    THEN create_inferred_relationship(verified_pattern, rs, is_connected, f1, f2)
    ELSE [NotCalled EXCEPT !.rels = rs]

\* a report that records successful commits only
ReportedCreatedOnly(result, verified_pattern, msg) ==
    IF IsSuccess(msg)
    THEN [result EXCEPT
            !.relationships_created = @ + 1,
            !.created_relationships =
                Append(@, [pattern_type |-> verified_pattern.type,
                           entities |-> verified_pattern.entities,
                           relationship |-> verified_pattern.inferred_relationship,
                           message |-> msg])]
    ELSE result

\* lines 419-432: the report after one create_inferred_relationship call
Reported(result, verified_pattern, msg) ==
    IF IsSuccess(msg)
    THEN [result EXCEPT
            !.relationships_created = @ + 1,
            !.created_relationships =
                Append(@, [pattern_type |-> verified_pattern.type,
                           entities |-> verified_pattern.entities,
                           relationship |-> verified_pattern.inferred_relationship,
                           message |-> msg])]
    ELSE [result EXCEPT
            !.failed_creations =
                Append(@, [pattern_type |-> verified_pattern.type,
                           entities |-> verified_pattern.entities,
                           error |-> msg])]

\* MATCH (a), (b) WHERE a.name = ... : every role-bound name of the pattern
\* is the name of a node of the store
EntitiesResolve(pattern) ==
    \A r \in DOMAIN pattern.entities :
        /\ Truthy(pattern.entities[r])
        /\ \E n \in DOMAIN g_nodes : Name(n) = pattern.entities[r]

\* which of n queries of one step fail, within the failures the store has left
FaultChoices(t, n) ==
    {F \in SUBSET (1..n) : connected /\ Cardinality(F) <= faults_left[t]}
    \cup {{}}

\* lines 387-391: the report once discovery has returned
DiscoveryReport(found) ==
    IF found = <<>>
    THEN [EmptyResult EXCEPT !.execution_summary = "no_patterns"]
    ELSE [EmptyResult EXCEPT !.patterns_found = Len(found)]

\* lines 385-391
Discover(t) ==
    /\ pc[t] = "start"
    /\ \E F \in FaultChoices(t, Len(PATTERN_QUERIES)) :
          LET found == find_interesting_patterns(rels[t], connected, F)
          IN  /\ patterns' = [patterns EXCEPT ![t] = found]
              /\ faults_left' = [faults_left EXCEPT ![t] = @ - Cardinality(F)]
              /\ pipeline_result' = [pipeline_result EXCEPT ![t] = DiscoveryReport(found)]
              /\ IF found = <<>>
                 THEN /\ pc' = [pc EXCEPT ![t] = "done"]
                      /\ idx' = idx
                 ELSE /\ pc' = [pc EXCEPT ![t] = "verify"]
                      /\ idx' = [idx EXCEPT ![t] = 1]
    /\ rels' = [rels EXCEPT ![t] = CatalogQueryStore(@)]
    /\ UNCHANGED <<g_nodes, connected, oracle_reply, runs, commit_log, oracle_calls,
                   previous>>
    /\ UNCHANGED optVars
    /\ UNCHANGED cypherVars

\* a verification loop that stops after its first iteration
MoreToVerifyNever(i, ps) == FALSE

\* line 395: whether the for loop over patterns has another iteration
MoreToVerify(i, ps) == i < Len(ps)

\* lines 395-401: one iteration of the verification loop
Verify(t) ==
    /\ pc[t] = "verify"
    /\ \E F \in FaultChoices(t, 1) :
          LET i == idx[t]
              outcome ==
                  VerifyOutcome(patterns[t][i], rels[t], connected, 1 \in F,
                                oracle_reply[i])
              verified_pattern == outcome.pattern
          IN  /\ patterns' = [patterns EXCEPT ![t][i] = verified_pattern]
              /\ rels' = [rels EXCEPT ![t] = EvidenceQueryStore(@)]
              /\ oracle_calls' = [oracle_calls EXCEPT ![t] =
                                    IF outcome.oracle_called THEN Append(@, i) ELSE @]
              /\ faults_left' = [faults_left EXCEPT ![t] = @ - Cardinality(F)]
              /\ pipeline_result' =
                    [pipeline_result EXCEPT ![t].patterns_verified =
                        IF CountsAsVerified(verified_pattern.verification, t)
                        THEN @ + 1 ELSE @]
              /\ IF MoreToVerify(i, patterns[t])
                 THEN idx' = [idx EXCEPT ![t] = i + 1] /\ pc' = pc
                 ELSE idx' = [idx EXCEPT ![t] = 1]
                      /\ pc' = [pc EXCEPT ![t] = "commit"]
    /\ UNCHANGED <<g_nodes, connected, oracle_reply, runs, commit_log, previous>>
    /\ UNCHANGED optVars
    /\ UNCHANGED cypherVars

\* lines 404-441: one iteration of the commit loop; after the last one the
\* summary is written
Commit(t) ==
    /\ pc[t] = "commit"
    /\ \E F \in FaultChoices(t, 2) :
          LET i == idx[t]
              verified_pattern == patterns[t][i]
              r == CommitStep(t, verified_pattern, rels[t], connected, 1 \in F, 2 \in F)
              called == r.msg.kind # "not_called"
              after == IF called
                       THEN Reported(pipeline_result[t], verified_pattern, r.msg)
                       ELSE pipeline_result[t]
          IN  /\ rels' = [rels EXCEPT ![t] = r.rels]
              /\ faults_left' = [faults_left EXCEPT ![t] = @ - Cardinality(F)]
              /\ commit_log' =
                    [commit_log EXCEPT ![t] =
                        IF called
                        THEN Append(@, [pattern |-> i, via |-> "pipeline", msg |-> r.msg,
                                        written |-> r.written, faulty |-> F # {},
                                        resolvable |-> EntitiesResolve(verified_pattern),
                                        changed |-> r.rels # rels[t]])
                        ELSE @]
              /\ IF i < Len(patterns[t])
                 THEN /\ idx' = [idx EXCEPT ![t] = i + 1]
                      /\ pc' = pc
                      /\ pipeline_result' = [pipeline_result EXCEPT ![t] = after]
                 ELSE /\ idx' = idx
                      /\ pc' = [pc EXCEPT ![t] = "done"]
                      /\ pipeline_result' =
                            [pipeline_result EXCEPT ![t] =
                                [after EXCEPT !.execution_summary = "completed"]]
    /\ UNCHANGED <<g_nodes, connected, oracle_reply, runs, patterns, oracle_calls,
                   previous>>
    /\ UNCHANGED optVars
    /\ UNCHANGED cypherVars

ToolCalls(t) == Cardinality({k \in DOMAIN commit_log[t] : commit_log[t][k].via = "tool"})

\* main_with_reasoning.py lines 108-110: the agent calls
\* create_inferred_relationship on a verified pattern directly
Recommit(t) ==
    /\ pc[t] = "done"
    /\ ToolCalls(t) < MaxRecommits
    /\ \E i \in DOMAIN patterns[t], F \in FaultChoices(t, 2) :
          LET r == create_inferred_relationship(patterns[t][i], rels[t], connected,
                                                1 \in F, 2 \in F)
          IN  /\ patterns[t][i].verification # Null
              /\ rels' = [rels EXCEPT ![t] = r.rels]
              /\ faults_left' = [faults_left EXCEPT ![t] = @ - Cardinality(F)]
              /\ commit_log' =
                    [commit_log EXCEPT ![t] =
                        Append(@, [pattern |-> i, via |-> "tool", msg |-> r.msg,
                                   written |-> r.written, faulty |-> F # {},
                                   resolvable |-> EntitiesResolve(patterns[t][i]),
                                   changed |-> r.rels # rels[t]])]
    /\ UNCHANGED <<g_nodes, connected, oracle_reply, runs, pc, patterns, idx,
                   pipeline_result, oracle_calls, previous>>
    /\ UNCHANGED optVars
    /\ UNCHANGED cypherVars

(***************************************************************************)
(* The stores the pipeline is run on.                                      *)
(***************************************************************************)
NodeTables ==
    {<<[label |-> "Person", name |-> "Alice"], [label |-> "Person", name |-> bob],
       [label |-> "Org", name |-> "Acme"], [label |-> "Tech", name |-> "Transformer"]>> :
        bob \in {"Bob", Null}}

CandidateEdges ==
    <<[src |-> 1, type |-> <<"WORKS_AT">>, tgt |-> 3, sentence |-> "s1"],
      [src |-> 2, type |-> <<"WORKS_AT">>, tgt |-> 3, sentence |-> "s2"],
      [src |-> 2, type |-> <<"HOLDS_POST_AT">>, tgt |-> 3, sentence |-> "s3"],
      [src |-> 1, type |-> <<"PROPOSED">>, tgt |-> 4, sentence |-> "s4"],
      [src |-> 2, type |-> <<"IMPROVED">>, tgt |-> 4, sentence |-> "s5"]>>

\* the chosen candidates, in order, with or without their provenance sentence
RECURSIVE GraphRels(_, _, _)
GraphRels(E, with_sentences, k) ==
    IF k > Len(CandidateEdges) THEN <<>>
    ELSE (IF k \in E
          THEN <<[src |-> CandidateEdges[k].src, type |-> CandidateEdges[k].type,
                  tgt |-> CandidateEdges[k].tgt,
                  props |-> [source_sentence |->
                               IF with_sentences THEN CandidateEdges[k].sentence
                               ELSE Null]]>>
          ELSE <<>>)
         \o GraphRels(E, with_sentences, k + 1)

\* the runs of run_set, each on its own copy of a store with one of the node
\* tables
InitPipeOn(tables, run_set, faults, replies) ==
    /\ OptOff
    /\ CypherOff
    /\ runs = run_set
    /\ g_nodes \in tables
    /\ connected \in BOOLEAN
    /\ \E E \in SUBSET (DOMAIN CandidateEdges), with_sentences \in BOOLEAN :
          /\ Cardinality(E) <= MaxGraphEdges
          /\ rels = [t \in Thresholds |->
                       IF t \in run_set THEN GraphRels(E, with_sentences, 1) ELSE <<>>]
          /\ oracle_reply \in
                [1..Len(find_interesting_patterns(GraphRels(E, with_sentences, 1), TRUE, {}))
                    -> replies]
    /\ pc = [t \in Thresholds |-> IF t \in run_set THEN "start" ELSE "off"]
    /\ patterns = [t \in Thresholds |-> <<>>]
    /\ idx = [t \in Thresholds |-> 0]
    /\ pipeline_result = [t \in Thresholds |-> EmptyResult]
    /\ commit_log = [t \in Thresholds |-> <<>>]
    /\ faults_left = [t \in Thresholds |-> IF t \in run_set THEN faults ELSE 0]
    /\ oracle_calls = [t \in Thresholds |-> <<>>]
    /\ previous = [t \in Thresholds |-> <<>>]

InitPipeRuns(run_set, faults, replies) == InitPipeOn(NodeTables, run_set, faults, replies)

\* one run, with any threshold, on a store whose queries may fail
InitPipe == \E t \in Thresholds : InitPipeRuns({t}, MaxFaults, OracleReplies)

NextPipe ==
    \/ \E t \in runs : Discover(t)
    \/ \E t \in runs : Verify(t)
    \/ \E t \in runs : Commit(t)
    \/ \E t \in runs : Recommit(t)

SpecPipe == InitPipe /\ [][NextPipe]_vars

\* graph_db.py lines 473-488: GraphDB.clear_database, MATCH (n) DETACH DELETE n,
\* called by another user of the store while a run is under way
ClearDatabase(t) ==
    /\ pc[t] \in {"verify", "commit"}
    /\ connected
    /\ g_nodes # <<>>
    /\ g_nodes' = <<>>
    /\ rels' = [rels EXCEPT ![t] = <<>>]
    /\ UNCHANGED <<connected, oracle_reply, runs, pc, patterns, idx, pipeline_result,
                   commit_log, faults_left, oracle_calls, previous>>
    /\ UNCHANGED optVars
    /\ UNCHANGED cypherVars

\* one run on a store that another user may clear
NextPrune ==
    \/ \E t \in runs : Discover(t)
    \/ \E t \in runs : Verify(t)
    \/ \E t \in runs : Commit(t)
    \/ \E t \in runs : Recommit(t)
    \/ \E t \in runs : ClearDatabase(t)

SpecPrune == InitPipe /\ [][NextPrune]_vars

\* one run per threshold, each on its own copy of the same store, with the
\* same answers of the judgment service and no failing query
InitThresholds == InitPipeRuns(Thresholds, 0, ScaleReplies)

NextThresholds ==
    \/ \E t \in runs : Discover(t)
    \/ \E t \in runs : Verify(t)
    \/ \E t \in runs : Commit(t)

SpecThresholds == InitThresholds /\ [][NextThresholds]_vars

(***************************************************************************)
(* Repeated runs on a store in which display names are not unique.         *)
(***************************************************************************)
\* stores in which the first person may have the second person's name, and
\* in which the fourth node may be another person or an organisation with
\* that name
PeopleTables ==
    {<<[label |-> "Person", name |-> first], [label |-> "Person", name |-> "Bob"],
       [label |-> "Org", name |-> "Acme"], fourth>> :
        first \in {"Alice", "Bob"},
        fourth \in {[label |-> "Tech", name |-> "Transformer"],
                    [label |-> "Person", name |-> "Bob"],
                    [label |-> "Org", name |-> "Bob"]}}

\* the relationships of the inferred types, in store order
InferredRels(rs) == SelectSeq(rs, LAMBDA r : Head(r.type) = "inferred")

\* the dicts find_interesting_patterns returned, before verification filled
\* them in
AsDiscovered(ps) ==
    [i \in DOMAIN ps |->
        [ps[i] EXCEPT !.verification = Null, !.evidence_text = EmptyText,
                      !.reasoning = Null]]

\* lines 362-382: execute_reasoning_pipeline is called again with the same
\* store and the same threshold; previous keeps what the finished call
\* discovered and the inferred relationships it left
Restart(t) ==
    /\ pc[t] = "done"
    /\ Len(previous[t]) < MaxReruns
    /\ previous' = [previous EXCEPT ![t] =
                       Append(@, [found |-> AsDiscovered(patterns[t]),
                                  inferred |-> InferredRels(rels[t])])]
    /\ pc' = [pc EXCEPT ![t] = "start"]
    /\ patterns' = [patterns EXCEPT ![t] = <<>>]
    /\ idx' = [idx EXCEPT ![t] = 0]
    /\ pipeline_result' = [pipeline_result EXCEPT ![t] = EmptyResult]
    /\ commit_log' = [commit_log EXCEPT ![t] = <<>>]
    /\ oracle_calls' = [oracle_calls EXCEPT ![t] = <<>>]
    /\ UNCHANGED <<g_nodes, connected, oracle_reply, runs, rels, faults_left>>
    /\ UNCHANGED optVars
    /\ UNCHANGED cypherVars

\* one run with any threshold, then the same run again, the judgment service
\* giving the same answers and no query failing
InitRerun == \E t \in Thresholds : InitPipeOn(PeopleTables, {t}, 0, ScaleReplies)

NextRerun ==
    \/ \E t \in runs : Discover(t)
    \/ \E t \in runs : Verify(t)
    \/ \E t \in runs : Commit(t)
    \/ \E t \in runs : Restart(t)

SpecRerun == InitRerun /\ [][NextRerun]_vars

(***************************************************************************)
(* Properties of the reasoning pipeline.                                   *)
(***************************************************************************)
\* the ordered scale low < medium < high; anything else is below it
Rank(v) ==
    CASE v = "high" -> 3
      [] v = "medium" -> 2
      [] v = "low" -> 1
      [] OTHER -> 0

InferredPositions(t) == {k \in DOMAIN rels[t] : Head(rels[t][k].type) = "inferred"}

PipelineCalls(t) == {k \in DOMAIN commit_log[t] : commit_log[t][k].via = "pipeline"}

\* C7: however often a verified pattern is committed, the store holds at most
\* one inferred relationship per (source, target, type), and a commit of a
\* pattern whose earlier commit succeeded returns that same success message
\* (when no query of the later commit fails).
C7_CommitIdempotent ==
    \A t \in runs :
        /\ \A j, k \in InferredPositions(t) :
              (/\ rels[t][j].src = rels[t][k].src
               /\ rels[t][j].tgt = rels[t][k].tgt
               /\ rels[t][j].type = rels[t][k].type) => j = k
        /\ \A j, k \in DOMAIN commit_log[t] :
              (/\ j < k
               /\ commit_log[t][j].pattern = commit_log[t][k].pattern
               /\ IsSuccess(commit_log[t][j].msg)
               /\ ~commit_log[t][k].faulty)
              => commit_log[t][k].msg = commit_log[t][j].msg

\* C7 witness: a two-sided pattern was committed by the pipeline and again by
\* a direct call, both successfully, and the store holds its two directions once.
C7_Witness ==
    \E t \in runs : \E j, k \in DOMAIN commit_log[t] :
        /\ j < k
        /\ commit_log[t][j].pattern = commit_log[t][k].pattern
        /\ commit_log[t][k].via = "tool"
        /\ IsSuccess(commit_log[t][j].msg)
        /\ IsSuccess(commit_log[t][k].msg)
        /\ commit_log[t][k].msg.kind = "created_bidirectional"
        /\ Cardinality(InferredPositions(t)) = 2

\* C8: in a run with threshold t, the pipeline's commit loop writes no
\* inferred relationship for a pattern whose verdict is below t.
C8_NoWriteBelowThreshold ==
    \A t \in runs : \A k \in PipelineCalls(t) :
        commit_log[t][k].written # {}
        => Rank(patterns[t][commit_log[t][k].pattern].verification) >= Rank(t)

\* C8 witness: a finished run that wrote for one pattern and had another
\* pattern whose verdict was below its threshold.
C8_Witness ==
    \E t \in runs :
        /\ pc[t] = "done"
        /\ \E k \in PipelineCalls(t) : commit_log[t][k].written # {}
        /\ \E i \in DOMAIN patterns[t] :
              /\ patterns[t][i].reasoning = "oracle_reasoning"
              /\ Rank(patterns[t][i].verification) < Rank(t)
        /\ InferredPositions(t) # {}

\* the role-bound names of a pattern each name a node of the store
Resolves(pattern) ==
    \A r \in (DOMAIN pattern.entities) :
        /\ Truthy(pattern.entities[r])
        /\ \E n \in DOMAIN g_nodes : Name(n) = pattern.entities[r]

\* C9: in a completed run every pattern whose verdict is on the scale and
\* >= the threshold, and whose entities resolve, is reported as created
\* (when the store is connected and no query of its commit fails).
C9_AcceptedPatternsCommitted ==
    \A t \in runs :
        (pc[t] = "done" /\ connected) =>
            \A i \in DOMAIN patterns[t] :
                (/\ Rank(patterns[t][i].verification) >= Rank(t)
                 /\ Resolves(patterns[t][i])
                 /\ \A k \in PipelineCalls(t) :
                       commit_log[t][k].pattern = i => ~commit_log[t][k].faulty)
                => /\ \E k \in PipelineCalls(t) :
                         /\ commit_log[t][k].pattern = i
                         /\ IsSuccess(commit_log[t][k].msg)
                   /\ \E c \in Range(pipeline_result[t].created_relationships) :
                         /\ c.pattern_type = patterns[t][i].type
                         /\ c.entities = patterns[t][i].entities

\* the patterns (by position in the discovered list) reported as created
CreatedPatterns(t) ==
    {commit_log[t][k].pattern : k \in {j \in PipelineCalls(t) : IsSuccess(commit_log[t][j].msg)}}

CreatedReports(t) ==
    {[pattern_type |-> c.pattern_type, entities |-> c.entities] :
        c \in Range(pipeline_result[t].created_relationships)}

\* C10: on the same store and with the same verdicts, the patterns reported
\* as created at a higher threshold are among those created at a lower one.
C10_ThresholdMonotone ==
    (\A t \in runs : pc[t] = "done") =>
        \A t1, t2 \in runs :
            Rank(t1) < Rank(t2) =>
                /\ CreatedPatterns(t2) \subseteq CreatedPatterns(t1)
                /\ CreatedReports(t2) \subseteq CreatedReports(t1)

\* C10 witness: the three runs are done, the run at the highest threshold
\* created something, and some verdict separates the thresholds.
C10_Witness ==
    /\ runs = Thresholds
    /\ \A t \in runs : pc[t] = "done"
    /\ CreatedPatterns("high") # {}
    /\ \E i \in DOMAIN patterns["high"] : patterns["high"][i].verification = "medium"
    /\ \A t \in runs : Len(pipeline_result[t].created_relationships)
                          = Cardinality(CreatedPatterns(t))

\* the patterns of run t that verify_hypothesis_from_text has returned
Verified(t) == {i \in DOMAIN patterns[t] : patterns[t][i].verification # Null}

\* C11: a commit of a two-sided pattern sets both directions or none: the
\* relationships its queries set are closed under reversal, and a commit
\* that is reported as failed has set none.
C11_TwoSidedCommitAtomic ==
    \A t \in runs : \A k \in DOMAIN commit_log[t] :
        LET call == commit_log[t][k]
        IN  patterns[t][call.pattern].type \in TwoSidedTypes =>
                /\ \A w \in call.written : <<w[2], w[1], w[3]>> \in call.written
                /\ call.msg.kind = "create_failed_no_result" => call.written = {}

\* the provenance sentences the evidence query finds in the store of run t
\* for the entities of pattern i
EvidenceInStore(t, i) ==
    LET entities == patterns[t][i].entities
    IN  DistinctSentences(rels[t],
                          EvidenceMatches(rels[t], {entities[k] : k \in DOMAIN entities}),
                          1, {})

\* C12: a verified pattern for whose entities the store holds no provenance
\* sentence has the verdict low, the rationale "insufficient evidence" and an
\* empty evidence text, and the judgment service was not asked about it.
C12_NoEvidenceShortcut ==
    \A t \in runs : \A i \in Verified(t) :
        EvidenceInStore(t, i) = <<>> =>
            /\ patterns[t][i].verification = "low"
            /\ patterns[t][i].reasoning = "insufficient_evidence"
            /\ patterns[t][i].evidence_text = EmptyText
            /\ i \notin Range(oracle_calls[t])

\* C12 witness: a run has finished on a connected store without provenance
\* sentences; its patterns are verified and the judgment service was not asked.
C12_Witness ==
    \E t \in runs :
        /\ pc[t] = "done"
        /\ Verified(t) # {}
        /\ \A i \in Verified(t) :
              EvidenceInStore(t, i) = <<>> /\ patterns[t][i].verification = "low"
        /\ oracle_calls[t] = <<>>

\* the answers of the judgment service that are failures: the request raised,
\* the text is no JSON, the JSON is no object, the object has no confidence
OracleFailed(reply) ==
    \/ reply.transport = "error"
    \/ reply.json # "object"
    \/ reply.confidence = Absent

\* the rationales that record a failure of the judgment service
FailureRationales == {"verification_error", "parse_failed", "cannot_parse_reply"}

\* C13: when the judgment service was asked about a pattern and failed, the
\* pattern's verdict is low and its rationale records the failure, and the
\* run goes on to its end.
C13_OracleFailureIsLowWithCause ==
    \A t \in runs :
        /\ \A i \in Range(oracle_calls[t]) :
              OracleFailed(oracle_reply[i]) =>
                  /\ patterns[t][i].verification = "low"
                  /\ patterns[t][i].reasoning \in FailureRationales
        /\ pc[t] = "done" =>
              pipeline_result[t].execution_summary \in {"completed", "no_patterns"}

\* C14: nothing is verified before discovery has returned, during the
\* verification loop exactly the patterns before the loop index are verified
\* and nothing is committed, and the commit loop runs only when every
\* discovered pattern is verified.
C14_StagesStrictlyOrdered ==
    \A t \in runs :
        /\ pc[t] = "start" =>
              patterns[t] = <<>> /\ oracle_calls[t] = <<>> /\ commit_log[t] = <<>>
        /\ pc[t] = "verify" =>
              /\ Verified(t) = 1..(idx[t] - 1)
              /\ commit_log[t] = <<>>
        /\ (pc[t] = "commit" \/ PipelineCalls(t) # {}) =>
              Verified(t) = DOMAIN patterns[t]
        /\ \A k \in PipelineCalls(t) : commit_log[t][k].pattern \in Verified(t)

\* C14 witness: a finished run that discovered two patterns, verified both
\* and then committed one.
C14_Witness ==
    \E t \in runs :
        /\ pc[t] = "done"
        /\ Len(patterns[t]) >= 2
        /\ Verified(t) = DOMAIN patterns[t]
        /\ \E k \in PipelineCalls(t) : commit_log[t][k].written # {}

\* the unordered pair of persons a two-sided pattern binds
PersonPair(pattern) == {pattern.entities.person1, pattern.entities.person2}

\* C15: discovery reports an unordered pair of persons at most once per
\* symmetric template.
C15_PairReportedOnce ==
    \A t \in runs : \A i, j \in DOMAIN patterns[t] :
        (/\ i # j
         /\ patterns[t][i].type \in TwoSidedTypes
         /\ patterns[t][i].type = patterns[t][j].type)
        => PersonPair(patterns[t][i]) # PersonPair(patterns[t][j])

\* C16: a step of discovery or of verification leaves the nodes and the
\* relationships of the store as they are, also when a query fails; the
\* relationships change only in a step that calls create_inferred_relationship.
C16_DiscoveryAndVerificationReadOnly ==
    [][\A t \in runs :
          /\ pc[t] \in {"start", "verify"} => (rels'[t] = rels[t] /\ g_nodes' = g_nodes)
          /\ rels'[t] # rels[t] => Len(commit_log'[t]) = Len(commit_log[t]) + 1]_vars

\* C16 witness: discovery and verification have run on a store with
\* relationships, a query failed on the way, and the commit loop is next.
C16_Witness ==
    \E t \in runs :
        /\ pc[t] = "commit"
        /\ rels[t] # <<>>
        /\ faults_left[t] < MaxFaults
        /\ Verified(t) = DOMAIN patterns[t]
        /\ oracle_calls[t] # <<>>

\* C17: every inferred relationship of the store has the five audit
\* properties: type INFERRED, a confidence of the scale, a rationale, an
\* evidence summary of at most 200 characters plus the ellipsis, and the
\* name of the catalog entry that produced it.
C17_InferredEdgesCarryAudit ==
    \A t \in runs : \A k \in InferredPositions(t) :
        LET props == rels[t][k].props
        IN  /\ {"type", "confidence", "reasoning", "evidence_summary", "pattern_type"}
                   \subseteq DOMAIN props
            /\ props.type = "INFERRED"
            /\ props.confidence \in Thresholds
            /\ Truthy(props.reasoning)
            /\ props.evidence_summary.length <= SummaryLimit + EllipsisLen
            /\ props.evidence_summary.ellipsis =>
                  props.evidence_summary.length = SummaryLimit + EllipsisLen
            /\ \E q \in DOMAIN PATTERN_QUERIES : PATTERN_QUERIES[q].name = props.pattern_type

\* the messages of create_inferred_relationship that report a failure
FailureKinds ==
    {"skipped_not_high", "cannot_identify_pair", "cannot_identify_source_target",
     "create_failed_no_result", "unknown_pattern_type"}

ReportOnEmptyStore == DiscoveryReport(find_interesting_patterns(<<>>, TRUE, {}))

\* C19: the report of a finished run on a store that is not connected
\* differs from the report of a run on a reachable store without any match.
C19_UnreachableStoreReportedDistinctly ==
    \A t \in runs :
        (pc[t] = "done" /\ ~connected) => pipeline_result[t] # ReportOnEmptyStore

(***************************************************************************)
(* Part III: GraphSynthesisAgent._generate_neo4j_creation_queries_with_source*)
(* (src/agents/graph_synthesis_agent.py lines 636-722).  A statement is    *)
(* modelled by its kind and by the quoted literals it contains, each with  *)
(* the value it was made from and the text put between the quotes.         *)
(***************************************************************************)
MaxStrLen == 3         \* characters in a node label handed to the generator

QUOTE     == "'"
BACKSLASH == "\\"
NEWLINE   == "\n"
SPACE     == " "

\* str.replace(old, new) for a one-character old
RECURSIVE Replace(_, _, _)
Replace(s, old, new) ==
    IF s = <<>> THEN <<>>
    ELSE (IF Head(s) = old THEN new ELSE <<Head(s)>>) \o Replace(Tail(s), old, new)

\* the escaping the system message asks for (lines 65-68): backslashes
\* doubled, quotes escaped, newlines turned into spaces
EscapeAll(value) ==
    Replace(Replace(Replace(value, BACKSLASH, <<BACKSLASH, BACKSLASH>>),
                    QUOTE, <<BACKSLASH, QUOTE>>),
            NEWLINE, <<SPACE>>)

\* lines 652, 670, 676, 693, 694, 704, 711: value.replace("'", "\\'")
Escape(value) == Replace(value, QUOTE, <<BACKSLASH, QUOTE>>)

Literal(from, value) == [from |-> from, value |-> value, text |-> Escape(value)]

\* the keys of node.properties and edge.properties, in dict order
PropertyKeys == <<"name", "description">>

\* lines 673-679 and 709-714: the literals of the string properties;
\* skip is the set of keys left out ('name' for a node)
RECURSIVE PropertyLiterals(_, _, _)
PropertyLiterals(properties, skip, k) ==
    IF k > Len(PropertyKeys) THEN <<>>
    ELSE LET key == PropertyKeys[k]
         IN  (IF key \in DOMAIN properties /\ key \notin skip
              THEN <<Literal(key, properties[key])>> ELSE <<>>)
             \o PropertyLiterals(properties, skip, k + 1)

\* lines 650-684: the statement for one node
NodeQuery(node) ==
    [kind |-> "MERGE_NODE",
     literals |-> <<Literal("label", node.label)>>
                  \o (IF node.source_sentence # <<>>
                      THEN <<Literal("source_sentence", node.source_sentence)>>
                      ELSE <<>>)
                  \o PropertyLiterals(node.properties, {"name"}, 1)]

\* line 689: next((n for n in nodes if n.id == node_id), None), as a list of
\* at most one node
FirstNodeWithId(ns, node_id) ==
    LET found == {k \in DOMAIN ns : ns[k].id = node_id}
    IN  IF found = {} THEN <<>>
        ELSE <<ns[CHOOSE k \in found : \A j \in found : k <= j]>>

\* lines 687-720: the statement for one edge, none when an endpoint is missing
EdgeQuery(edge, ns) ==
    LET source_node == FirstNodeWithId(ns, edge.source_id)
        target_node == FirstNodeWithId(ns, edge.target_id)
    IN  IF source_node # <<>> /\ target_node # <<>>
        THEN <<[kind |-> "MERGE_EDGE",
                literals |-> <<Literal("source_label", source_node[1].label),
                               Literal("target_label", target_node[1].label)>>
                             \o (IF edge.source_sentence # <<>>
                                 THEN <<Literal("source_sentence", edge.source_sentence)>>
                                 ELSE <<>>)
                             \o PropertyLiterals(edge.properties, {}, 1)]>>
        ELSE <<>>

RECURSIVE EdgeQueries(_, _)
EdgeQueries(es, ns) ==
    IF es = <<>> THEN <<>> ELSE EdgeQuery(Head(es), ns) \o EdgeQueries(Tail(es), ns)

\* lines 636-722
generate_neo4j_creation_queries_with_source(ns, es) ==
    [k \in DOMAIN ns |-> NodeQuery(ns[k])] \o EdgeQueries(es, ns)

\* the inputs: the first node's label is any string of up to MaxStrLen
\* characters; sentences and descriptions come from a few texts
Chars == {"a", QUOTE, BACKSLASH, NEWLINE}

CypherLabels == SeqsUpTo(Chars, MaxStrLen)

CypherSentences == {<<>>, <<"a">>, <<"a", QUOTE, NEWLINE>>}

CypherNodeLists ==
    {<<[id |-> "entity_0", label |-> label, type |-> "PERSON",
        properties |-> [name |-> label, description |-> sentence],
        confidence |-> 8, source_sentence |-> sentence],
       [id |-> "entity_1", label |-> <<"a">>, type |-> "ORG",
        properties |-> [name |-> <<"a">>],
        confidence |-> 8, source_sentence |-> <<>>]>> :
        label \in CypherLabels, sentence \in CypherSentences}

CypherEdgeLists ==
    {<<>>}
    \cup {<<[id |-> "rel_0", source_id |-> "entity_0", target_id |-> target,
             relation_type |-> "WORKS_AT", properties |-> [description |-> sentence],
             confidence |-> 8, source_sentence |-> sentence]>> :
             target \in {"entity_1", "entity_2"}, sentence \in {<<>>, <<BACKSLASH, "a">>}}

InitCypher ==
    /\ OptOff
    /\ PipeOff
    /\ query_nodes \in CypherNodeLists
    /\ query_edges \in CypherEdgeLists
    /\ queries = <<>>
    /\ generated = FALSE

GenerateQueries ==
    /\ ~generated
    /\ queries' = generate_neo4j_creation_queries_with_source(query_nodes, query_edges)
    /\ generated' = TRUE
    /\ UNCHANGED <<query_nodes, query_edges>>
    /\ UNCHANGED optVars
    /\ UNCHANGED pipeVars

NextCypher == GenerateQueries

SpecCypher == InitCypher /\ [][NextCypher]_vars

(***************************************************************************)
(* Properties of the statement generator (checked under SpecCypher).       *)
(***************************************************************************)
\* the text between two quotes has no raw quote, backslash or newline: every
\* backslash starts an escape of a quote or of a backslash
RECURSIVE NoRawCharacter(_)
NoRawCharacter(text) ==
    IF text = <<>> THEN TRUE
    ELSE IF Head(text) = BACKSLASH
    THEN /\ Len(text) >= 2
         /\ text[2] \in {QUOTE, BACKSLASH}
         /\ NoRawCharacter(SubSeq(text, 3, Len(text)))
    ELSE /\ Head(text) \notin {QUOTE, NEWLINE}
         /\ NoRawCharacter(Tail(text))

\* C20: in every generated statement, every quoted literal made from a node
\* or edge string has its quotes and backslashes escaped and its newlines
\* replaced by spaces.
C20_LiteralsEscaped ==
    generated =>
        \A q \in DOMAIN queries : \A l \in DOMAIN queries[q].literals :
            /\ NoRawCharacter(queries[q].literals[l].text)
            /\ queries[q].literals[l].text = EscapeAll(queries[q].literals[l].value)

(***************************************************************************)
(* The counters of the report (checked under SpecPipe).                    *)
(***************************************************************************)
\* C21: once verification has finished, patterns_found is the number of
\* discovered patterns and patterns_verified is the number of them whose
\* verdict is at or above the threshold on the scale low < medium < high.
C21_ReportCounts ==
    \A t \in runs :
        (pc[t] \in {"commit", "done"} /\ patterns[t] # <<>>) =>
            /\ pipeline_result[t].patterns_found = Len(patterns[t])
            /\ pipeline_result[t].patterns_verified =
                  Cardinality({i \in DOMAIN patterns[t] :
                                 Rank(patterns[t][i].verification) >= Rank(t)})

\* C22: every verdict verify_hypothesis_from_text has stored is one of low,
\* medium and high, whatever the judgment service answered.
C22_VerdictOnScale ==
    \A t \in runs : \A i \in Verified(t) :
        patterns[t][i].verification \in Thresholds

(***************************************************************************)
(* Further properties of _optimize_graph and of the quality metrics        *)
(* (checked under SpecOpt).                                                *)
(***************************************************************************)
\* C23: no two distinct nodes of the returned graph have the same id.
C23_UniqueNodeIds ==
    calls >= 1 =>
        \A i, j \in DOMAIN connected_nodes :
            i # j => connected_nodes[i].id # connected_nodes[j].id

\* the input node of the group with the highest confidence, when there is
\* exactly one
HasSingleBest(G) ==
    Cardinality({n \in G : n.confidence = MaxConfidence(G)}) = 1

Best(G) == CHOOSE n \in G : n.confidence = MaxConfidence(G)

\* C24: where input nodes collide on the merge key, the merged node carries
\* the id, the label and the provenance sentence of the input node with the
\* highest confidence, and that node's value for every property key it has,
\* in any input order.
C24_HigherConfidenceSurvives ==
    calls >= 1 =>
        \A m \in Range(optimized_nodes) :
            LET G == GroupOf(m, nodes)
            IN  (Cardinality(G) > 1 /\ HasSingleBest(G)) =>
                    /\ m.id = Best(G).id
                    /\ m.label = Best(G).label
                    /\ m.source_sentence = Best(G).source_sentence
                    /\ \A k \in DOMAIN Best(G).properties :
                          /\ k \in DOMAIN m.properties
                          /\ m.properties[k] = Best(G).properties[k]

\* C25: after the call every input node record and every input edge record
\* has the property map and the confidence it had before the call.
C25_InputsUntouched ==
    calls >= 1 =>
        /\ \A i \in DOMAIN nodes :
              /\ nodes_after[i].properties = nodes[i].properties
              /\ nodes_after[i].confidence = nodes[i].confidence
        /\ \A i \in DOMAIN edges :
              /\ edges_after[i].properties = edges[i].properties
              /\ edges_after[i].confidence = edges[i].confidence

\* equality of two fractions
RatEq(a, b) == a.num * b.den = b.num * a.den

\* the metric is reported and equals the fraction
MetricIs(key, fraction) ==
    /\ key \in DOMAIN quality_metrics
    /\ RatEq(quality_metrics[key], fraction)

\* C26: for the returned graph, density is 0 below two nodes and the edge
\* count over n(n-1)/2 from two nodes on; the average degree is 0 without
\* nodes and twice the edge count over the node count otherwise.
C26_QualityMetrics ==
    calls >= 1 =>
        LET n == Len(connected_nodes)
            e == Len(valid_edges)
        IN  /\ n < 2 => MetricIs("graph_density", Rat(0, 1))
            /\ n = 0 => MetricIs("average_degree", Rat(0, 1))
            /\ n >= 2 => /\ MetricIs("graph_density", Rat(2 * e, n * (n - 1)))
                         /\ MetricIs("average_degree", Rat(2 * e, n))

(***************************************************************************)
(* The two lists of the report (checked under SpecPrune).                  *)
(***************************************************************************)
\* the positions the commit loop has gone through
Attempted(t) ==
    IF pc[t] = "done" THEN DOMAIN patterns[t]
    ELSE IF pc[t] = "commit" THEN 1..(idx[t] - 1)
    ELSE {}

\* the positions among them whose verdict met the threshold
Accepted(t) == {i \in Attempted(t) : Rank(patterns[t][i].verification) >= Rank(t)}

\* how many entries of a report list are about the pattern type and entities
Entries(list, type, entities) ==
    Cardinality({k \in DOMAIN list :
                    list[k].pattern_type = type /\ list[k].entities = entities})

\* C28: the created list and the failed list together hold exactly the
\* patterns whose verdict met the threshold, each once and in one list only;
\* relationships_created is the length of the created list; every accepted
\* pattern has its entry, whatever happened to the patterns before it.
C28_CreatedAndFailedPartitionAccepted ==
    \A t \in runs :
        LET created == pipeline_result[t].created_relationships
            failed  == pipeline_result[t].failed_creations
        IN  /\ pipeline_result[t].relationships_created = Len(created)
            /\ Len(created) + Len(failed) = Cardinality(Accepted(t))
            /\ \A i \in Accepted(t) :
                  Entries(created, patterns[t][i].type, patterns[t][i].entities)
                  + Entries(failed, patterns[t][i].type, patterns[t][i].entities)
                  = Cardinality({j \in Accepted(t) :
                                    /\ patterns[t][j].type = patterns[t][i].type
                                    /\ patterns[t][j].entities = patterns[t][i].entities})

\* C28 witness: a finished run in which a commit failed and the commit of a
\* later pattern succeeded, one entry in each list.
C28_Witness ==
    \E t \in runs :
        /\ pc[t] = "done"
        /\ Len(pipeline_result[t].failed_creations) = 1
        /\ Len(pipeline_result[t].created_relationships) = 1
        /\ \E k, l \in PipelineCalls(t) :
              /\ k < l
              /\ ~IsSuccess(commit_log[t][k].msg)
              /\ IsSuccess(commit_log[t][l].msg)

(***************************************************************************)
(* Commits and repeated runs on stores whose display names are not unique  *)
(* (checked under SpecRerun).                                              *)
(***************************************************************************)
\* the names of the two ends of the pattern's inferred relationship
EndNames(pattern) ==
    <<Or(Or(Get(pattern.entities, "person1"), Get(pattern.entities, "mentor")),
         Get(pattern.entities, "innovator")),
      Or(Or(Get(pattern.entities, "person2"), Get(pattern.entities, "student")),
         Get(pattern.entities, "follower"))>>

\* the pairs of nodes that a match of the store bound to the two ends of the
\* pattern: two nodes with the pattern's names that have extracted
\* relationships to a common third node with one of the pattern's names
BoundPairs(rs, pattern) ==
    {<<rs[a].src, rs[b].src>> : <<a, b>> \in
        {m \in (DOMAIN rs) \X (DOMAIN rs) :
            /\ m[1] # m[2]
            /\ Head(rs[m[1]].type) # "inferred"
            /\ Head(rs[m[2]].type) # "inferred"
            /\ rs[m[1]].tgt = rs[m[2]].tgt
            /\ Name(rs[m[1]].src) = EndNames(pattern)[1]
            /\ Name(rs[m[2]].src) = EndNames(pattern)[2]
            /\ Name(rs[m[1]].tgt) \in {pattern.entities[k] : k \in DOMAIN pattern.entities}}}

\* C29: a successful commit sets inferred relationships only between the two
\* nodes that the discovered match bound: at most one per direction, none
\* from a node to itself, none at any other node.
C29_CommitTouchesOnlyBoundPair ==
    \A t \in runs : \A k \in PipelineCalls(t) :
        LET entry == commit_log[t][k]
            pattern == patterns[t][entry.pattern]
        IN  IsSuccess(entry.msg) =>
                \E b \in BoundPairs(rels[t], pattern) :
                    /\ b[1] # b[2]
                    /\ \A w \in entry.written :
                          <<w[1], w[2]>> \in {<<b[1], b[2]>>, <<b[2], b[1]>>}

\* the relationships that were extracted from text
ExtractedRels(rs) == SelectSeq(rs, LAMBDA r : Head(r.type) # "inferred")

\* C30: inferred relationships never feed back into discovery. In every
\* state discovery returns what it returns on the extracted relationships
\* alone; a second run on the same store with the same verdicts discovers
\* the same patterns as the first, and when it has finished the inferred
\* relationships are those the first run left.
C30_InferredEdgesDoNotFeedBack ==
    \A t \in runs :
        /\ find_interesting_patterns(rels[t], connected, {})
           = find_interesting_patterns(ExtractedRels(rels[t]), connected, {})
        /\ previous[t] # <<>> =>
              LET before == previous[t][Len(previous[t])]
              IN  /\ pc[t] \in {"verify", "commit", "done"} =>
                         AsDiscovered(patterns[t]) = before.found
                  /\ pc[t] = "done" => InferredRels(rels[t]) = before.inferred

\* C30 witness: a second run has finished on a store in which the first run
\* had left inferred relationships, and it committed a pattern again.
C30_Witness ==
    \E t \in runs :
        /\ previous[t] # <<>>
        /\ previous[t][1].inferred # <<>>
        /\ pc[t] = "done"
        /\ \E k \in PipelineCalls(t) :
              /\ IsSuccess(commit_log[t][k].msg)
              /\ commit_log[t][k].written # {}

====
